---- MODULE Spec2Model ----
(***************************************************************************)
(* Model of the maestro-express adapter: the Adapter class (route          *)
(* registration, listener lifecycle, per-request orchestration), the      *)
(* Response Materializer (SendResponse / applyCommandsToResponse), the     *)
(* command registry (Commands) and the Error Translator (ErrorHandler).    *)
(***************************************************************************)
EXTENDS Integers, Sequences, FiniteSets, TLC

VARIABLES
    \* ---- Adapter fields (Adapter.ts) ----
    containers,      \* this.containers : sequence of container ids
    port,            \* this._port
    booted,          \* this._booted
    started,         \* this._started
    server,          \* this._server : index into listeners, 0 = undefined
    loaded,          \* this._loadedRoutes : sequence of route ids
    apiHandler,      \* this._apiHandler : "undefined" or a handler id
    transformFn,     \* this._transformRequest : function id
    sendFn,          \* this._sendResponse : function id
    errorFn,         \* this._errorHandler : function id
    \* ---- transport (express application / http servers) ----
    bindings,        \* route bindings made on the express app, in order
    listeners,       \* http servers returned by express.listen, in order
    emitted,         \* registration events emitted by the adapter, in order
    \* ---- inbound requests ----
    requests,        \* one record per inbound request, in arrival order
    \* ---- direct calls of the exported functions ----
    call             \* the last direct call of SendResponse / ErrorHandler

vars == <<containers, port, booted, started, server, loaded, apiHandler,
          transformFn, sendFn, errorFn, bindings, listeners, emitted,
          requests, call>>

adapterVars == <<containers, port, booted, started, server, loaded, apiHandler,
                 transformFn, sendFn, errorFn, bindings, listeners, emitted>>

(***************************************************************************)
(* Program constants                                                       *)
(***************************************************************************)
ADAPTER_NAME == "Express"
DEFAULT_PORT == 3000

(***************************************************************************)
(* Small helpers on sequences                                              *)
(***************************************************************************)
Includes(s, x) == \E i \in DOMAIN s : s[i] = x

RECURSIVE CountIn(_, _)
CountIn(s, x) ==
    IF s = <<>> THEN 0
    ELSE (IF Head(s) = x THEN 1 ELSE 0) + CountIn(Tail(s), x)

(***************************************************************************)
(* The transport response handle (express Response) as far as the code    *)
(* uses it: setHeader, cookie, status, send.  Header names are             *)
(* case-insensitive on the transport, so they are stored under their      *)
(* lower-case form.  `invoked` records the registry handlers that ran,     *)
(* `log` the order of the effects on the handle.                           *)
(***************************************************************************)
HeaderNames == {"X-Exit-Code", "x-exit-code", "X-Test"}

LowerCase(name) ==
    CASE name = "X-Exit-Code" -> "x-exit-code"
      [] name = "X-Test"      -> "x-test"
      [] OTHER                -> name

HeaderKeys == {LowerCase(n) : n \in HeaderNames}

CookieNames == {"session"}

NewResponse ==
    [ headers |-> [k \in HeaderKeys |-> "unset"],
      cookies |-> [k \in CookieNames |-> "unset"],
      status  |-> 0,
      body    |-> [kind |-> "none", value |-> "none"],
      sent    |-> 0,
      invoked |-> <<>>,
      log     |-> <<>> ]

ResSetHeader(response, name, value) ==
    [response EXCEPT !.headers[LowerCase(name)] = value,
                     !.log = Append(@, <<"setHeader", LowerCase(name)>>)]

ResCookie(response, name, value) ==
    [response EXCEPT !.cookies[name] = value,
                     !.log = Append(@, <<"cookie", name>>)]

ResStatus(response, code) ==
    [response EXCEPT !.status = code,
                     !.log = Append(@, <<"status", "">>)]

ResSend(response, body) ==
    [response EXCEPT !.body = body,
                     !.sent = @ + 1,
                     !.log = Append(@, <<"send", "">>)]

(***************************************************************************)
(* Decimal rendering of a number, as the transport writes a numeric       *)
(* header value.                                                           *)
(***************************************************************************)
Digit(d) ==
    CASE d = 0 -> "0" [] d = 1 -> "1" [] d = 2 -> "2" [] d = 3 -> "3"
      [] d = 4 -> "4" [] d = 5 -> "5" [] d = 6 -> "6" [] d = 7 -> "7"
      [] d = 8 -> "8" [] d = 9 -> "9"

RECURSIVE NumberToString(_)
NumberToString(n) ==
    IF n < 10 THEN Digit(n) ELSE NumberToString(n \div 10) \o Digit(n % 10)

(***************************************************************************)
(* Commands: the registry of named handlers.  A payload is the list of    *)
(* the (key, value) entries of the payload object in for-in order.         *)
(***************************************************************************)
RECURSIVE CommandSetHeader(_, _)
CommandSetHeader(response, headers) ==
    IF headers = <<>> THEN response
    ELSE CommandSetHeader(
             ResSetHeader(response, Head(headers)[1], Head(headers)[2]),
             Tail(headers))

RECURSIVE CommandSetCookie(_, _)
CommandSetCookie(response, cookies) ==
    IF cookies = <<>> THEN response
    ELSE CommandSetCookie(
             ResCookie(response, Head(cookies)[1], Head(cookies)[2]),
             Tail(cookies))

\* The own properties of the Commands object literal.
OwnCommands == {"setHeader", "setCookie"}

\* Members every object literal inherits from Object.prototype.
InheritedMembers == {"constructor", "toString"}

\* (Commands as any)[name] != null
CommandsLookupNotNull(name) == name \in OwnCommands \cup InheritedMembers

\* (Commands as any)[name](response, payload)
CommandsInvoke(response, name, payload) ==
    LET r == [response EXCEPT !.invoked = Append(@, <<name, payload>>)]
    IN  CASE name = "setHeader" -> CommandSetHeader(r, payload)
          [] name = "setCookie" -> CommandSetCookie(r, payload)
          [] OTHER              -> r   \* an inherited member: no effect on the handle

(***************************************************************************)
(* applyCommandsToResponse.  A command tree is either a list               *)
(* [list |-> <<...>>] or a single command                                  *)
(* [name, adapters, payload]; adapters is [tag, names] with tag "absent",  *)
(* "array" or "string".                                                    *)
(***************************************************************************)
IsList(commands) == "list" \in DOMAIN commands

AdaptersIsArray(adapters) == adapters.tag = "array"

\* commands.adapters == null || commands.adapters === Adapter.ADAPTER_NAME
UnspecifiedOrExpress(adapters) ==
    \/ adapters.tag = "absent"
    \/ adapters.tag = "string" /\ adapters.names = <<ADAPTER_NAME>>

\* variant: the adapters field is not consulted
ApplySingleCommandIgnoringAdapters(response, command) ==
    IF CommandsLookupNotNull(command.name)
    THEN CommandsInvoke(response, command.name, command.payload)
    ELSE response

ApplySingleCommand(response, command) ==
    IF AdaptersIsArray(command.adapters)
       /\ ~Includes(command.adapters.names, ADAPTER_NAME)
    THEN response
    ELSE IF UnspecifiedOrExpress(command.adapters)
         THEN IF CommandsLookupNotNull(command.name)
              THEN CommandsInvoke(response, command.name, command.payload)
              ELSE response
         ELSE response

RECURSIVE applyCommandsToResponse(_, _)
\* variant: the commands of a list are applied last to first
RECURSIVE ApplyEachLastFirst(_, _)
ApplyEachLastFirst(response, list) ==
    IF list = <<>> THEN response
    ELSE ApplyEachLastFirst(applyCommandsToResponse(response, list[Len(list)]),
                            SubSeq(list, 1, Len(list) - 1))

RECURSIVE ApplyEach(_, _)
ApplyEach(response, list) ==
    IF list = <<>> THEN response
    ELSE ApplyEach(applyCommandsToResponse(response, Head(list)), Tail(list))

applyCommandsToResponse(response, commands) ==
    IF IsList(commands)
    THEN ApplyEach(response, commands.list)
    ELSE ApplySingleCommand(response, commands)

(***************************************************************************)
(* SendResponse.  routeResp = [status, payload, exitCode, commands];       *)
(* commands is [tag |-> "null"] when the response carries none.            *)
(***************************************************************************)
CommandsPresent(routeResp) == "tag" \notin DOMAIN routeResp.commands

ExitCodeHeader(response, routeResp) ==
    ResSetHeader(response, "X-Exit-Code", NumberToString(routeResp.exitCode))

StatusAndSend(response, routeResp) ==
    ResSend(ResStatus(response, routeResp.status),
            [kind |-> "payload", value |-> routeResp.payload])

\* variant: the exit-code header is written before the commands run
SendResponseExitCodeFirst(routeResp, response) ==
    LET r1 == ExitCodeHeader(response, routeResp)
        r2 == IF CommandsPresent(routeResp)
              THEN applyCommandsToResponse(r1, routeResp.commands)
              ELSE r1
    IN  StatusAndSend(r2, routeResp)

SendResponse(routeResp, response) ==
    LET r1 == IF CommandsPresent(routeResp)
              THEN applyCommandsToResponse(response, routeResp.commands)
              ELSE response
        r2 == ExitCodeHeader(r1, routeResp)
    IN  StatusAndSend(r2, routeResp)

(***************************************************************************)
(* ErrorHandler.  An error is [kind, isApiError, httpStatus, message];     *)
(* the result is the response handle and the list of errors handed to      *)
(* next.                                                                   *)
(***************************************************************************)
InstanceOfApiError(error) == error.isApiError

\* variant: an ApiError is written and also forwarded to next
ErrorHandlerAlsoForwards(response, nextCalls, error) ==
    [ response |-> IF InstanceOfApiError(error)
                   THEN ResSend(ResStatus(response, error.httpStatus),
                                [kind |-> "error", value |-> error.message])
                   ELSE response,
      nextCalls |-> Append(nextCalls, error) ]

ErrorHandler(response, nextCalls, error) ==
    IF InstanceOfApiError(error)
    THEN [ response |-> ResSend(ResStatus(response, error.httpStatus),
                                [kind |-> "error", value |-> error.message]),
           nextCalls |-> nextCalls ]
    ELSE [ response |-> response,
           nextCalls |-> Append(nextCalls, error) ]

(***************************************************************************)
(* Route Descriptors and containers.  A descriptor is known by its         *)
(* identity (r1 .. r4); two descriptors may share a URL.     A URL is the   *)
(* list of its characters.  `methods` is a single tag or an array of tags. *)
(***************************************************************************)
HTTPMethods == {"all", "get", "search", "post", "put", "patch", "delete",
                "head", "options", "connect", "trace"}

Routes == {"r1", "r2", "r3", "r4"}

RouteUrl(route) ==
    CASE route = "r1" -> <<"u">>
      [] route = "r2" -> <<" ", "/", "i", " ">>
      [] route = "r3" -> <<"u">>
      [] route = "r4" -> <<"/", "c">>

RouteMethods(route) ==
    CASE route = "r1" -> [isArray |-> FALSE, tags |-> <<"get">>]
      [] route = "r2" -> [isArray |-> TRUE,  tags |-> <<"post", "all">>]
      [] route = "r3" -> [isArray |-> TRUE,  tags |-> <<"search", "get", "get">>]
      \* "brew" is a tag neither the switch nor the transport knows
      [] route = "r4" -> [isArray |-> TRUE,  tags |-> <<"get", "brew", "post">>]

Containers == {"c1", "c2"}

\* container.allRoutes()
allRoutes(container) ==
    CASE container = "c1" -> <<"r1", "r2", "r4">>
      [] container = "c2" -> <<"r2", "r3", "r3">>

\* String.prototype.trim on a list of characters
RECURSIVE TrimLeft(_)
TrimLeft(s) ==
    IF s # <<>> /\ Head(s) = " " THEN TrimLeft(Tail(s)) ELSE s

RECURSIVE TrimRight(_)
TrimRight(s) ==
    IF s # <<>> /\ s[Len(s)] = " " THEN TrimRight(SubSeq(s, 1, Len(s) - 1)) ELSE s

Trim(s) == TrimRight(TrimLeft(s))

\* the url a route is bound under (addRouteToHttpMethod, first lines)
BoundUrl(route) ==
    LET t == Trim(RouteUrl(route))
    IN  IF t = <<>> \/ Head(t) # "/" THEN <<"/">> \o t ELSE t

\* the per-method registration event of the switch in addRouteToHttpMethod
MethodEvent(method) ==
    CASE method = "all"     -> "ALL_REQUEST"
      [] method = "get"     -> "GET_REQUEST"
      [] method = "search"  -> "GET_REQUEST"
      [] method = "post"    -> "POST_REQUEST"
      [] method = "put"     -> "PUT_REQUEST"
      [] method = "patch"   -> "PATCH_REQUEST"
      [] method = "delete"  -> "DELETE_REQUEST"
      [] method = "head"    -> "HEAD_REQUEST"
      [] method = "options" -> "OPTIONS_REQUEST"
      [] method = "connect" -> "CONNECT_REQUEST"
      [] method = "trace"   -> "TRACE_REQUEST"

(***************************************************************************)
(* The registration state threaded through loadRoutesFromContainers:       *)
(* [loaded, bindings, emitted].                                            *)
(***************************************************************************)
addRouteToHttpMethod(st, method, route) ==
    IF method \in HTTPMethods
    THEN [st EXCEPT
            !.bindings = Append(@, [url |-> BoundUrl(route), method |-> method,
                                    route |-> route]),
            !.emitted  = @ \o << <<MethodEvent(method), route>>,
                                 <<"REQUEST", route>> >>]
    ELSE [st EXCEPT !.emitted = Append(@, <<"REQUEST", route>>)]

\* methods = Array.isArray(route.methods) ? route.methods : [route.methods]
MethodsOf(route) == RouteMethods(route).tags

\* variant: registration of a route stops at the first tag without a
\* registration call
RECURSIVE BindMethodsUntilUnsupported(_, _, _)
BindMethodsUntilUnsupported(st, methods, route) ==
    IF methods = <<>> \/ Head(methods) \notin HTTPMethods THEN st
    ELSE BindMethodsUntilUnsupported(addRouteToHttpMethod(st, Head(methods), route),
                                     Tail(methods), route)

RECURSIVE BindMethods(_, _, _)
BindMethods(st, methods, route) ==
    IF methods = <<>> THEN st
    ELSE BindMethods(addRouteToHttpMethod(st, Head(methods), route),
                     Tail(methods), route)

\* variant: the duplicate check never finds the route
AlreadyLoadedNever(st, route) == FALSE

AlreadyLoaded(st, route) == Includes(st.loaded, route)

LoadRoute(st, route) ==
    IF AlreadyLoaded(st, route) THEN st
    ELSE LET bound == BindMethods(st, MethodsOf(route), route)
         IN  [bound EXCEPT !.loaded = Append(@, route)]

RECURSIVE LoadRoutes(_, _)
LoadRoutes(st, routes) ==
    IF routes = <<>> THEN st
    ELSE LoadRoutes(LoadRoute(st, Head(routes)), Tail(routes))

RECURSIVE loadRoutesFromContainers(_, _)
loadRoutesFromContainers(st, cs) ==
    IF cs = <<>> THEN st
    ELSE loadRoutesFromContainers(LoadRoutes(st, allRoutes(Head(cs))), Tail(cs))

\* loadedRoutes(): the map url -> descriptor, later descriptors overwriting
RECURSIVE LoadedIndex(_, _)
LoadedIndex(ls, acc) ==
    IF ls = <<>> THEN acc
    ELSE LoadedIndex(Tail(ls),
                     {e \in acc : e[1] # RouteUrl(Head(ls))}
                        \cup {<<RouteUrl(Head(ls)), Head(ls)>>})

loadedRoutes(ls) == LoadedIndex(ls, {})

(***************************************************************************)
(* Adapter lifecycle                                                       *)
(***************************************************************************)
Ports == {DEFAULT_PORT, 8080}

\* the largest number of listeners start() opens in the model
MaxListeners == 3

RegState == [loaded |-> loaded, bindings |-> bindings, emitted |-> emitted]

\* new Adapter(p): fields at their initial values, then onPort(p ?? DEFAULT_PORT)
Constructed(p) ==
    /\ containers = <<>>
    /\ port = p
    /\ booted = FALSE
    /\ started = FALSE
    /\ server = 0
    /\ loaded = <<>>
    /\ apiHandler = "undefined"
    /\ transformFn = "TransformRequest"
    /\ sendFn = "SendResponse"
    /\ errorFn = "ErrorHandler"
    /\ bindings = <<>>
    /\ listeners = <<>>
    /\ emitted = <<>>

NoCall == [fn |-> "none"]

Init ==
    /\ \E p \in Ports : Constructed(p)
    /\ requests = <<>>
    /\ call = NoCall

AddContainer(c) ==
    /\ containers' = IF Includes(containers, c) THEN containers
                     ELSE Append(containers, c)
    /\ UNCHANGED <<port, booted, started, server, loaded, apiHandler,
                   transformFn, sendFn, errorFn, bindings, listeners, emitted,
                   requests, call>>

\* the registration state and booted flag after boot()
BootResult ==
    IF booted THEN RegState ELSE loadRoutesFromContainers(RegState, containers)

Boot ==
    /\ loaded' = BootResult.loaded
    /\ bindings' = BootResult.bindings
    /\ emitted' = BootResult.emitted
    /\ booted' = TRUE
    /\ UNCHANGED <<containers, port, started, server, apiHandler, transformFn,
                   sendFn, errorFn, listeners, requests, call>>

ContainerLists ==
    {<<>>} \cup {<<c>> : c \in Containers}
           \cup {<<c, d>> : c \in Containers, d \in Containers}

LoadRoutesFromContainers(cs) ==
    LET st == loadRoutesFromContainers(RegState, cs)
    IN  /\ loaded' = st.loaded
        /\ bindings' = st.bindings
        /\ emitted' = st.emitted
        /\ UNCHANGED <<containers, port, booted, started, server, apiHandler,
                       transformFn, sendFn, errorFn, listeners, requests, call>>

OnPort(p) ==
    /\ port' = IF started THEN port ELSE p
    /\ UNCHANGED <<containers, booted, started, server, loaded, apiHandler,
                   transformFn, sendFn, errorFn, bindings, listeners, emitted,
                   requests, call>>

\* express.listen(port): a new http server bound on the port
Listen(ls, p) == Append(ls, [port |-> p, open |-> TRUE, closes |-> 0])

\* server.close()
Close(ls, i) == [ls EXCEPT ![i].open = FALSE, ![i].closes = @ + 1]

\* variant: start() does nothing while the adapter is started
StartGuarded ==
    /\ Len(listeners) < MaxListeners
    /\ IF started
       THEN UNCHANGED <<loaded, bindings, emitted, booted, listeners, server, started>>
       ELSE /\ loaded' = BootResult.loaded
            /\ bindings' = BootResult.bindings
            /\ emitted' = BootResult.emitted
            /\ booted' = TRUE
            /\ listeners' = Listen(listeners, port)
            /\ server' = Len(listeners) + 1
            /\ started' = TRUE
    /\ UNCHANGED <<containers, port, apiHandler, transformFn, sendFn, errorFn,
                   requests, call>>

Start ==
    /\ Len(listeners) < MaxListeners
    /\ loaded' = BootResult.loaded
    /\ bindings' = BootResult.bindings
    /\ emitted' = BootResult.emitted
    /\ booted' = TRUE
    /\ listeners' = Listen(listeners, port)
    /\ server' = Len(listeners) + 1
    /\ started' = TRUE
    /\ UNCHANGED <<containers, port, apiHandler, transformFn, sendFn, errorFn,
                   requests, call>>

\* variant: stop() without the started guard
StopResultUnguarded ==
    [listeners |-> Close(listeners, server), started |-> FALSE]

StopResult ==
    IF started
    THEN [listeners |-> Close(listeners, server), started |-> FALSE]
    ELSE [listeners |-> listeners, started |-> started]

Stop ==
    /\ listeners' = StopResult.listeners
    /\ started' = StopResult.started
    /\ UNCHANGED <<containers, port, booted, server, loaded, apiHandler,
                   transformFn, sendFn, errorFn, bindings, emitted, requests,
                   call>>

\* The setters of the swappable functions.  They touch no registration or
\* listener state; setRequestHandler takes part in the request scenarios.
TransformFunctions == {"TransformRequest", "TransformByVerb"}
SendFunctions      == {"SendResponse", "SendBodyOnly"}
ErrorFunctions     == {"ErrorHandler", "ForwardAll"}
ApiHandlers        == {"handle"}

SetRequestHandler(h) ==
    /\ apiHandler' = h
    /\ UNCHANGED <<containers, port, booted, started, server, loaded, transformFn,
                   sendFn, errorFn, bindings, listeners, emitted, requests, call>>

SetTransformRequestFunction(f) ==
    /\ transformFn' = f
    /\ UNCHANGED <<containers, port, booted, started, server, loaded, apiHandler,
                   sendFn, errorFn, bindings, listeners, emitted, requests, call>>

SetSendResponseFunction(f) ==
    /\ sendFn' = f
    /\ UNCHANGED <<containers, port, booted, started, server, loaded, apiHandler,
                   transformFn, errorFn, bindings, listeners, emitted, requests, call>>

SetErrorHanlder(f) ==
    /\ errorFn' = f
    /\ UNCHANGED <<containers, port, booted, started, server, loaded, apiHandler,
                   transformFn, sendFn, bindings, listeners, emitted, requests, call>>

Next ==
    \/ \E c \in Containers : AddContainer(c)
    \/ Boot
    \/ \E cs \in ContainerLists : LoadRoutesFromContainers(cs)
    \/ \E p \in Ports : OnPort(p)
    \/ Start
    \/ Stop

\* registration and listener lifecycle; the swappable functions play no part
\* in it and keep their initial values
Spec == Init /\ [][Next]_vars

(***************************************************************************)
(* Request Normalizer (TransformRequest), as far as the orchestration      *)
(* depends on it.  A raw request is [originalUrl, verb, ips, userAgent];   *)
(* a missing user-agent header is [present |-> FALSE].                     *)
(***************************************************************************)
RECURSIVE Join(_, _)
Join(strings, sep) ==
    IF strings = <<>> THEN ""
    ELSE IF Len(strings) = 1 THEN Head(strings)
    ELSE Head(strings) \o sep \o Join(Tail(strings), sep)

\* string concatenation with a header value that may be undefined
ConcatHeader(prefix, header) ==
    prefix \o (IF header.present THEN header.value ELSE "undefined")

\* request.ips.join(' - ') + " | " + request.headers["user-agent"] ?? "UA-NOT-PROVIDED"
\* (+ binds tighter than ??, and the concatenation is never null)
RequestIdentification(request) ==
    ConcatHeader(Join(request.ips, " - ") \o " | ", request.userAgent)

NoApiRequest ==
    [adapter |-> "", url |-> <<>>, method |-> "undefined", identification |-> ""]

\* new RouteRequest(ADAPTER_NAME, originalUrl) with its identification set;
\* the method is left as the constructor leaves it
TransformRequest(request) ==
    [ adapter        |-> ADAPTER_NAME,
      url            |-> request.originalUrl,
      method         |-> "undefined",
      identification |-> RequestIdentification(request) ]

(***************************************************************************)
(* Direct calls of the exported functions SendResponse, ErrorHandler and    *)
(* TransformRequest, with inputs drawn from the sets below; the first two   *)
(* act on a fresh response handle.                                         *)
(***************************************************************************)
AdaptersValues ==
    { [tag |-> "absent", names |-> <<>>],
      [tag |-> "array",  names |-> <<>>],
      [tag |-> "array",  names |-> <<"Express">>],
      [tag |-> "array",  names |-> <<"Other">>],
      [tag |-> "array",  names |-> <<"Other", "Express">>],
      [tag |-> "string", names |-> <<"Express">>],
      [tag |-> "string", names |-> <<"Other">>] }

HeaderPayloads ==
    { << <<"X-Test", "1">> >>,
      << <<"X-Exit-Code", "9">> >>,
      << <<"x-exit-code", "9">>, <<"X-Test", "2">> >> }

CookiePayloads == { << <<"session", "abc">> >> }

CommandNames == {"setHeader", "setCookie", "create-cookie", "constructor"}

PayloadsFor(name) ==
    CASE name = "setHeader" -> HeaderPayloads
      [] name = "setCookie" -> CookiePayloads
      [] OTHER              -> { << <<"X-Test", "1">> >> }

SingleCommands ==
    UNION { { [name |-> n, adapters |-> a, payload |-> p] :
                a \in AdaptersValues, p \in PayloadsFor(n) } : n \in CommandNames }

\* the commands that appear inside lists
ListedCommands ==
    { c \in SingleCommands :
        /\ c.adapters.names \in {<<>>, <<"Express">>, <<"Other">>}
        /\ c.adapters.tag \in {"absent", "array"}
        /\ c.adapters.tag = "array" => c.adapters.names # <<>>
        /\ c.name \in {"setHeader", "setCookie"}
        /\ c.payload \in { << <<"X-Exit-Code", "9">> >>, << <<"session", "abc">> >> } }

CommandTrees ==
    SingleCommands
      \cup { [list |-> <<>>] }
      \cup { [list |-> <<a, b>>] : a \in ListedCommands, b \in ListedCommands }
      \cup { [list |-> << [list |-> <<a>>], [list |-> << [list |-> <<>>], b>>] >>] :
               a \in ListedCommands, b \in ListedCommands }

NoCommands == [tag |-> "null"]

RouteResponses ==
    [ status   : {200, 404},
      payload  : {"ok"},
      exitCode : {0, 7, 12},
      commands : CommandTrees \cup {NoCommands} ]

Errors ==
    [ kind : {"ApiError"}, isApiError : {TRUE},
      httpStatus : {404, 500}, message : {"not found", "boom"} ]
      \cup
    \* whether these classes derive from ApiError is not decided by this code
    [ kind : {"ApiException", "RequestFlowNotDefined"}, isApiError : BOOLEAN,
      httpStatus : {0, 400}, message : {"boom"} ]
      \cup
    [ kind : {"Error"}, isApiError : {FALSE},
      httpStatus : {0}, message : {"boom"} ]

CallSendResponse(routeResp) ==
    /\ call.fn = "none"
    /\ call' = [ fn |-> "SendResponse", arg |-> routeResp,
                 response |-> SendResponse(routeResp, NewResponse),
                 nextCalls |-> <<>> ]
    /\ UNCHANGED <<adapterVars, requests>>

CallErrorHandler(error) ==
    LET out == ErrorHandler(NewResponse, <<>>, error)
    IN  /\ call.fn = "none"
        /\ call' = [ fn |-> "ErrorHandler", arg |-> error,
                     response |-> out.response,
                     nextCalls |-> out.nextCalls ]
        /\ UNCHANGED <<adapterVars, requests>>

\* the raw requests given to the Request Normalizer
NormalizerInputs ==
    [ originalUrl : {<<"/", "u">>},
      verb        : {"get", "post"},
      ips         : {<<>>, <<"10.0.0.1">>, <<"10.0.0.1", "10.0.0.2">>},
      userAgent   : {[present |-> TRUE, value |-> "curl"],
                     [present |-> FALSE, value |-> ""]} ]

CallTransformRequest(request) ==
    /\ call.fn = "none"
    /\ call' = [ fn |-> "TransformRequest", arg |-> request,
                 result |-> TransformRequest(request) ]
    /\ UNCHANGED <<adapterVars, requests>>

NextCalls ==
    \/ \E routeResp \in RouteResponses : CallSendResponse(routeResp)
    \/ \E error \in Errors : CallErrorHandler(error)
    \/ \E request \in NormalizerInputs : CallTransformRequest(request)

SpecCalls == Init /\ [][NextCalls]_vars

(***************************************************************************)
(* Properties of the Command Executor, the Response Materializer and the   *)
(* Error Translator, checked under SpecCalls.                              *)
(***************************************************************************)
\* the single commands of a command tree, in depth-first order
RECURSIVE Flatten(_)
RECURSIVE FlattenAll(_)
FlattenAll(list) ==
    IF list = <<>> THEN <<>> ELSE Flatten(Head(list)) \o FlattenAll(Tail(list))

Flatten(commands) ==
    IF IsList(commands) THEN FlattenAll(commands.list) ELSE <<commands>>

FlatCommands(routeResp) ==
    IF CommandsPresent(routeResp) THEN Flatten(routeResp.commands) ELSE <<>>

Invocation(c) == <<c.name, c.payload>>

ExcludesExpress(c) ==
    c.adapters.tag = "array" /\ ~Includes(c.adapters.names, ADAPTER_NAME)

NoAdaptersRecognized(c) ==
    c.adapters.tag = "absent" /\ c.name \in OwnCommands

\* how many commands of the list are invoked as `inv` and do not exclude
\* this adapter
CountNotExcluded(flat, inv) ==
    Len(SelectSeq(flat, LAMBDA c : Invocation(c) = inv /\ ~ExcludesExpress(c)))

\* how many are invoked as `inv`, have no adapters field and a recognized name
CountNoAdaptersRecognized(flat, inv) ==
    Len(SelectSeq(flat, LAMBDA c : Invocation(c) = inv /\ NoAdaptersRecognized(c)))

SentCall == call.fn = "SendResponse"

\* C2: a Command whose adapters list does not contain "Express" never has
\* its registry handler invoked, and a Command with no adapters field and a
\* recognized name (setHeader, setCookie) always has its handler invoked with
\* its payload: every invocation is that of a command of the response, no
\* more invocations of (name, payload) happen than there are commands not
\* excluding this adapter, and no fewer than there are recognized commands
\* without an adapters field.
C2_AdaptersFilter ==
    SentCall =>
        LET flat == FlatCommands(call.arg)
            inv  == call.response.invoked
        IN  /\ \A i \in DOMAIN inv : \E j \in DOMAIN flat : Invocation(flat[j]) = inv[i]
            /\ \A j \in DOMAIN flat :
                 LET k == Invocation(flat[j])
                 IN  /\ CountIn(inv, k) <= CountNotExcluded(flat, k)
                     /\ CountIn(inv, k) >= CountNoAdaptersRecognized(flat, k)

\* a response whose list holds a command for another adapter and a recognized
\* command without adapters: only the latter was invoked
C2_Witness ==
    /\ SentCall
    /\ LET flat == FlatCommands(call.arg)
       IN  /\ Len(flat) = 2
           /\ ExcludesExpress(flat[1]) /\ flat[1].name \in OwnCommands
           /\ NoAdaptersRecognized(flat[2])
           /\ call.response.invoked = <<Invocation(flat[2])>>

\* C3: a Command whose adapters list contains "Express" and whose name is
\* recognized has its handler executed with its payload, exactly as the same
\* Command without an adapters field.
C3_ExplicitExpressExecutes ==
    (/\ SentCall
     /\ CommandsPresent(call.arg)
     /\ ~IsList(call.arg.commands)
     /\ call.arg.commands.adapters.tag = "array"
     /\ Includes(call.arg.commands.adapters.names, ADAPTER_NAME)
     /\ call.arg.commands.name \in OwnCommands)
    => /\ call.response.invoked = <<Invocation(call.arg.commands)>>
       /\ call.response =
            SendResponse(
              [call.arg EXCEPT !.commands.adapters = [tag |-> "absent", names |-> <<>>]],
              NewResponse)

\* C4: after SendResponse the response carries X-Exit-Code equal to the
\* response's exitCode, has the response's status and was sent once with the
\* response's payload as body, whatever the commands did.
C4_ExitCodeStatusBody ==
    SentCall =>
        /\ call.response.headers[LowerCase("X-Exit-Code")] = NumberToString(call.arg.exitCode)
        /\ call.response.status = call.arg.status
        /\ call.response.body = [kind |-> "payload", value |-> call.arg.payload]
        /\ call.response.sent = 1

\* a response whose executed command set X-Exit-Code to another value
C4_Witness ==
    /\ SentCall
    /\ call.arg.exitCode = 7 /\ call.arg.status = 200
    /\ \E i \in DOMAIN call.response.invoked :
         /\ call.response.invoked[i][1] = "setHeader"
         /\ Includes(call.response.invoked[i][2], <<"X-Exit-Code", "9">>)
    /\ call.response.headers["x-exit-code"] = "7"
    /\ call.response.status = 200
    /\ call.response.sent = 1

\* C5: for an ApiError the Error Translator sets the status to httpStatus and
\* sends {error: message} without calling next; for any other error it calls
\* next(error) exactly once and writes neither status nor body.
C5_ErrorHandlerTwoTier ==
    call.fn = "ErrorHandler" =>
        IF call.arg.isApiError
        THEN /\ call.response.status = call.arg.httpStatus
             /\ call.response.body = [kind |-> "error", value |-> call.arg.message]
             /\ call.response.sent = 1
             /\ call.nextCalls = <<>>
        ELSE /\ call.nextCalls = <<call.arg>>
             /\ call.response = NewResponse

C5_Witness ==
    /\ call.fn = "ErrorHandler"
    /\ call.arg.kind = "ApiError" /\ call.arg.httpStatus = 404
    /\ call.arg.message = "not found"
    /\ call.response.status = 404
    /\ call.response.body = [kind |-> "error", value |-> "not found"]
    /\ call.nextCalls = <<>>

(***************************************************************************)
(* Properties of route registration and of the listener lifecycle,         *)
(* checked under Spec.                                                     *)
(***************************************************************************)
\* the number of transport bindings of a descriptor under a method tag
BindingCount(route, method) ==
    Len(SelectSeq(bindings, LAMBDA b : b.route = route /\ b.method = method))

AllLoaded(cs) ==
    \A i \in DOMAIN cs : \A j \in DOMAIN allRoutes(cs[i]) :
        Includes(loaded, allRoutes(cs[i])[j])

C8_StopGuard ==
    /\ ~started => /\ StopResult.listeners = listeners
                   /\ StopResult.started = FALSE
    /\ started =>
         /\ server \in DOMAIN listeners
         /\ listeners[server].open
         /\ StopResult.started = FALSE
         /\ StopResult.listeners[server].open = FALSE
         /\ \A i \in DOMAIN listeners :
              StopResult.listeners[i].closes =
                  listeners[i].closes + (IF i = server THEN 1 ELSE 0)
         /\ \A i \in DOMAIN listeners \ {server} :
              StopResult.listeners[i] = listeners[i]
    /\ \A i \in DOMAIN listeners : listeners[i].closes <= 1

\* stopped after a start: the listener was closed once and stop() is a no-op
C8_Witness ==
    /\ ~started
    /\ server \in DOMAIN listeners
    /\ listeners[server].closes = 1
    /\ ~listeners[server].open
    /\ StopResult.listeners = listeners

\* C9: the port is immutable after start, so the port the adapter reports
\* always equals the port every currently open listener was bound on.
C9_PortMatchesOpenListeners ==
    \A i \in DOMAIN listeners : listeners[i].open => listeners[i].port = port

(***************************************************************************)
(* Replacement functions handed to the setters                             *)
(***************************************************************************)
\* a normalizer that takes the method from the raw request
TransformByVerb(request) ==
    [ adapter        |-> ADAPTER_NAME,
      url            |-> request.originalUrl,
      method         |-> request.verb,
      identification |-> "anonymous" ]

\* a materializer that writes the body only
SendBodyOnly(routeResp, response) ==
    ResSend(response, [kind |-> "payload", value |-> routeResp.payload])

\* an error translator that forwards everything
ForwardAll(response, nextCalls, error) ==
    [response |-> response, nextCalls |-> Append(nextCalls, error)]

\* this._transformRequest(request)
CallTransform(fn, request) ==
    IF fn = "TransformRequest" THEN TransformRequest(request)
    ELSE TransformByVerb(request)

\* this._sendResponse(routeResp, response)
CallSend(fn, routeResp, response) ==
    IF fn = "SendResponse" THEN SendResponse(routeResp, response)
    ELSE SendBodyOnly(routeResp, response)

\* this._errorHandler(response, next, error)
CallError(fn, response, nextCalls, error) ==
    IF fn = "ErrorHandler" THEN ErrorHandler(response, nextCalls, error)
    ELSE ForwardAll(response, nextCalls, error)

(***************************************************************************)
(* Per-request orchestration (_requestHandler).  A request record holds    *)
(* the binding it arrived on, its response handle, the errors handed to    *)
(* next, the Canonical Request handed to the business handler and the      *)
(* trace of the steps taken for it.                                        *)
(***************************************************************************)
\* the largest number of inbound requests in the model
MaxRequests == 2

\* the largest number of continuation calls business handlers make in all
MaxContinuations == 2

Step(q, name, arg) == [q EXCEPT !.trace = Append(@, [step |-> name, arg |-> arg])]

\* this.emit(event, ...)
Emit(q, event, arg) == Step(q, event, arg)

NewRequest(binding, raw) ==
    [ route      |-> binding.route,
      method     |-> binding.method,
      raw        |-> raw,
      apiRequest |-> NoApiRequest,
      handler    |-> "undefined",
      handed     |-> NoApiRequest,
      response   |-> NewResponse,
      nextCalls  |-> <<>>,
      outcome    |-> "running",
      continued  |-> 0,
      trace      |-> <<>> ]

RunErrorHandler(q, error) ==
    LET out == CallError(errorFn, q.response, q.nextCalls, error)
    IN  Step([q EXCEPT !.response = out.response, !.nextCalls = out.nextCalls],
             "errorHandler", error.kind)

\* variant: the materializer the adapter was constructed with is used
RunSendResponseAsConstructed(q, routeResp) ==
    Step([q EXCEPT !.response = CallSend("SendResponse", routeResp, q.response)],
         "sendResponse", NumberToString(routeResp.exitCode))

RunSendResponse(q, routeResp) ==
    Step([q EXCEPT !.response = CallSend(sendFn, routeResp, q.response)],
         "sendResponse", NumberToString(routeResp.exitCode))

\* typeof this._apiHandler !== "function"
HandlerMissing == apiHandler = "undefined"

\* variant: the configuration error is translated but no event is emitted
ReportMissingHandlerSilently(q, error) == RunErrorHandler(q, error)

\* the body of the missing-handler check
ReportMissingHandler(q, error) ==
    Emit(RunErrorHandler(q, error), "REQUEST_ERROR", error.kind)

\* let apiRequest = this._transformRequest(request)
Normalize(q) ==
    Step([q EXCEPT !.apiRequest = CallTransform(transformFn, q.raw)],
         "transformRequest", "")

\* variant: the method is taken from the raw request
StampVerb(q) ==
    Step([q EXCEPT !.apiRequest.method = q.raw.verb], "stamp", q.raw.verb)

\* apiRequest.method = method
StampMethod(q) ==
    Step([q EXCEPT !.apiRequest.method = q.method], "stamp", q.method)

\* this._apiHandler!(route, apiRequest, onSuccess, onFailure): calling
\* undefined throws a TypeError, which rejects the promise of the async
\* function
InvokeApiHandler(q) ==
    IF HandlerMissing
    THEN Step([q EXCEPT !.outcome = "rejected"], "TypeError", "")
    ELSE Step([q EXCEPT !.outcome = "dispatched",
                        !.handler = apiHandler,
                        !.handed  = q.apiRequest], "apiHandler", apiHandler)

\* variant: the orchestration returns after reporting the missing handler
requestHandlerStopsAfterReport(binding, raw, error) ==
    LET q0 == NewRequest(binding, raw)
    IN  IF HandlerMissing
        THEN [ReportMissingHandler(q0, error) EXCEPT !.outcome = "rejected"]
        ELSE InvokeApiHandler(StampMethod(Normalize(q0)))

requestHandler(binding, raw, error) ==
    LET q0 == NewRequest(binding, raw)
        q1 == IF HandlerMissing THEN ReportMissingHandler(q0, error) ELSE q0
        q2 == Normalize(q1)
        q3 == StampMethod(q2)
    IN  InvokeApiHandler(q3)

\* variant: the notification is emitted before the response is written
OnSuccessEmitFirst(q, routeResp) ==
    LET r == RunSendResponse(Emit(q, "REQUEST_RESPONSE", ""), routeResp)
    IN  [r EXCEPT !.continued = @ + 1]

\* (routeResp) => { this._sendResponse(...); this.emit(REQUEST_RESPONSE, ...) }
OnSuccess(q, routeResp) ==
    LET r == Emit(RunSendResponse(q, routeResp), "REQUEST_RESPONSE", "")
    IN  [r EXCEPT !.continued = @ + 1]

\* (error) => { this._errorHandler(...); this.emit(REQUEST_ERROR, ...) }
OnFailure(q, error) ==
    LET r == Emit(RunErrorHandler(q, error), "REQUEST_ERROR", error.kind)
    IN  [r EXCEPT !.continued = @ + 1]

(***************************************************************************)
(* The transport's dispatch: a request is given to the first binding, in   *)
(* registration order, whose url and method match it.                      *)
(***************************************************************************)
Matches(binding, raw) ==
    /\ binding.url = raw.originalUrl
    /\ binding.method = "all" \/ binding.method = raw.verb

FirstMatch(raw) ==
    IF \E i \in DOMAIN bindings : Matches(bindings[i], raw)
    THEN CHOOSE i \in DOMAIN bindings :
            /\ Matches(bindings[i], raw)
            /\ \A j \in 1..(i - 1) : ~Matches(bindings[j], raw)
    ELSE 0

RawRequests ==
    [ originalUrl : {<<"/", "u">>, <<"/", "i">>},
      verb        : {"get", "post"},
      ips         : {<<"10.0.0.1", "10.0.0.2">>},
      userAgent   : {[present |-> TRUE, value |-> "curl"]} ]

\* the configuration error raised when no handler is set
RequestFlowNotDefined == {e \in Errors : e.kind = "RequestFlowNotDefined" /\ e.httpStatus = 0}

HandlerResponses ==
    { [ status |-> 200, payload |-> "ok", exitCode |-> 7,
        commands |-> [list |-> << [name |-> "setHeader",
                                   adapters |-> [tag |-> "absent", names |-> <<>>],
                                   payload |-> << <<"X-Test", "1">> >>] >>] ] }

HandlerErrors ==
    {e \in Errors : \/ e.kind = "ApiError" /\ e.httpStatus = 404 /\ e.message = "not found"
                    \/ e.kind = "Error"}

ContinuationsMade ==
    LET RECURSIVE Sum(_)
        Sum(qs) == IF qs = <<>> THEN 0 ELSE Head(qs).continued + Sum(Tail(qs))
    IN  Sum(requests)

ListenerOpen == \E i \in DOMAIN listeners : listeners[i].open

Arrive(raw, error) ==
    /\ Len(requests) < MaxRequests
    /\ ListenerOpen
    /\ FirstMatch(raw) # 0
    /\ requests' = Append(requests, requestHandler(bindings[FirstMatch(raw)], raw, error))
    /\ UNCHANGED <<adapterVars, call>>

Success(i, routeResp) ==
    /\ requests[i].outcome = "dispatched"
    /\ ContinuationsMade < MaxContinuations
    /\ requests' = [requests EXCEPT ![i] = OnSuccess(@, routeResp)]
    /\ UNCHANGED <<adapterVars, call>>

Failure(i, error) ==
    /\ requests[i].outcome = "dispatched"
    /\ ContinuationsMade < MaxContinuations
    /\ requests' = [requests EXCEPT ![i] = OnFailure(@, error)]
    /\ UNCHANGED <<adapterVars, call>>

\* the adapter after new Adapter(), setTransformRequestFunction(f),
\* addContainer(c1), addContainer(c2), start()
InitRequests ==
    LET st == loadRoutesFromContainers(
                  [loaded |-> <<>>, bindings |-> <<>>, emitted |-> <<>>],
                  <<"c1", "c2">>)
    IN  /\ containers = <<"c1", "c2">>
        /\ port = DEFAULT_PORT
        /\ booted = TRUE
        /\ started = TRUE
        /\ server = 1
        /\ loaded = st.loaded
        /\ bindings = st.bindings
        /\ emitted = st.emitted
        /\ listeners = Listen(<<>>, DEFAULT_PORT)
        /\ apiHandler = "undefined"
        /\ transformFn \in TransformFunctions
        /\ sendFn = "SendResponse"
        /\ errorFn = "ErrorHandler"
        /\ requests = <<>>
        /\ call = NoCall

NextRequests ==
    \/ \E raw \in RawRequests : \E error \in RequestFlowNotDefined : Arrive(raw, error)
    \/ \E i \in DOMAIN requests : \E routeResp \in HandlerResponses : Success(i, routeResp)
    \/ \E i \in DOMAIN requests : \E error \in HandlerErrors : Failure(i, error)
    \/ \E h \in ApiHandlers : SetRequestHandler(h)

SpecRequests == InitRequests /\ [][NextRequests]_vars

(***************************************************************************)
(* Properties of the per-request orchestration, checked under              *)
(* SpecRequests.                                                           *)
(***************************************************************************)
\* how often a step was taken for a request
StepCount(q, name) == Len(SelectSeq(q.trace, LAMBDA e : e.step = name))

\* the position of the first occurrence of a step, 0 when it was not taken
StepIndex(q, name) ==
    IF \E k \in DOMAIN q.trace : q.trace[k].step = name
    THEN CHOOSE k \in DOMAIN q.trace :
            /\ q.trace[k].step = name
            /\ \A j \in 1..(k - 1) : q.trace[j].step # name
    ELSE 0

\* the terminal states of the orchestration
Responded(q) == StepCount(q, "sendResponse") > 0
Failed(q)    == StepCount(q, "errorHandler") > 0

\* C6: whatever the business handler does with its continuations, the
\* Response Materializer runs at most once on a request's response handle and
\* the request enters at most one of the terminal states Responded, Failed.
C6_HandledExactlyOnce ==
    \A i \in DOMAIN requests :
        /\ StepCount(requests[i], "sendResponse") <= 1
        /\ ~(Responded(requests[i]) /\ Failed(requests[i]))

ArriveAny ==
    \E raw \in RawRequests : \E error \in RequestFlowNotDefined : Arrive(raw, error)

\* C7: a request arriving while no business handler is configured has the
\* Error Translator invoked with a RequestFlowNotDefined error, then a
\* REQUEST_ERROR notification emitted with it; the Response Materializer never
\* runs for it and no handler is invoked; and the adapter goes on accepting
\* requests.
C7_MissingHandlerFails ==
    \A i \in DOMAIN requests :
        LET q == requests[i]
        IN  q.handler = "undefined" =>
              /\ Len(q.trace) >= 2
              /\ q.trace[1] = [step |-> "errorHandler", arg |-> "RequestFlowNotDefined"]
              /\ q.trace[2] = [step |-> "REQUEST_ERROR", arg |-> "RequestFlowNotDefined"]
              /\ StepCount(q, "errorHandler") = 1
              /\ StepCount(q, "REQUEST_ERROR") = 1
              /\ StepCount(q, "sendResponse") = 0
              /\ StepCount(q, "REQUEST_RESPONSE") = 0
              /\ StepCount(q, "apiHandler") = 0
              /\ q.response.sent + Len(q.nextCalls) = 1
              /\ \A k \in DOMAIN q.nextCalls : q.nextCalls[k].kind = "RequestFlowNotDefined"
              /\ (Len(requests) < MaxRequests => ENABLED ArriveAny)

\* the first request met no handler and failed; the adapter served the second
C7_Witness ==
    /\ Len(requests) = 2
    /\ requests[1].handler = "undefined"
    /\ Failed(requests[1]) /\ ~Responded(requests[1])
    /\ requests[2].handler = "handle"
    /\ Responded(requests[2])
    /\ requests[2].response.sent = 1

C11_UnknownNamesIgnored ==
    (/\ SentCall
     /\ CommandsPresent(call.arg)
     /\ ~IsList(call.arg.commands)
     /\ call.arg.commands.name \notin OwnCommands)
    => /\ call.response.invoked = <<>>
       /\ call.response =
            SendResponse([call.arg EXCEPT !.commands = NoCommands], NewResponse)

(***************************************************************************)
(* Property of the Request Normalizer, checked under SpecCalls.            *)
(***************************************************************************)
\* C12: the identification is the client address chain joined by ' - ',
\* then ' | ', then the user-agent header when present and the sentinel
\* "UA-NOT-PROVIDED" when the request has no user-agent header.
C12_IdentificationSentinel ==
    call.fn = "TransformRequest" =>
        call.result.identification =
            Join(call.arg.ips, " - ") \o " | "
              \o (IF call.arg.userAgent.present
                  THEN call.arg.userAgent.value
                  ELSE "UA-NOT-PROVIDED")

(***************************************************************************)
(* Further properties of route registration and of the listener            *)
(* lifecycle, checked under Spec.                                          *)
(***************************************************************************)
\* the tags of a route for which there is no registration call
UnsupportedTags(route) == {t \in {MethodsOf(route)[k] : k \in DOMAIN MethodsOf(route)} :
                              t \notin HTTPMethods}

RoutesOf(cs) ==
    UNION { {allRoutes(cs[i])[j] : j \in DOMAIN allRoutes(cs[i])} : i \in DOMAIN cs }

\* C13: a method tag for which there is no registration call on the
\* transport is skipped without failing: registering the route still binds
\* each of its other tags, binds nothing under the skipped tag, and marks the
\* descriptor loaded.
C13_UnsupportedTagSkipped ==
    /\ [](\A r \in Routes :
            (UnsupportedTags(r) # {} /\ Includes(loaded, r)) =>
               /\ \A m \in HTTPMethods :
                    BindingCount(r, m) = CountIn(MethodsOf(r), m)
               /\ \A k \in DOMAIN bindings :
                    bindings[k].route = r => bindings[k].method \in HTTPMethods)
    /\ [][\A cs \in ContainerLists :
            LoadRoutesFromContainers(cs) =>
                \A r \in RoutesOf(cs) : Includes(loaded', r)]_vars

\* r4 (get, brew, post) was registered: get and post are bound, brew is not
C13_Witness ==
    /\ Includes(loaded, "r4")
    /\ UnsupportedTags("r4") = {"brew"}
    /\ BindingCount("r4", "get") = 1
    /\ BindingCount("r4", "post") = 1
    /\ Len(SelectSeq(bindings, LAMBDA b : b.route = "r4")) = 2

\* C14: whenever the adapter is started, every route of every container
\* added through addContainer is bound on the transport under each of its
\* supported tags and is present in loadedRoutes().
C14_AddedContainersExposed ==
    started =>
        \A r \in RoutesOf(containers) :
            /\ Includes(loaded, r)
            /\ \E e \in loadedRoutes(loaded) : e[1] = RouteUrl(r)
            /\ \A m \in HTTPMethods :
                 CountIn(MethodsOf(r), m) > 0 => BindingCount(r, m) > 0

(***************************************************************************)
(* Order of the effects of the Response Materializer, checked under        *)
(* SpecCalls.                                                              *)
(***************************************************************************)
\* whether s can be obtained from t by dropping elements
RECURSIVE IsSubsequence(_, _)
IsSubsequence(s, t) ==
    IF s = <<>> THEN TRUE
    ELSE IF t = <<>> THEN FALSE
    ELSE IF Head(s) = Head(t) THEN IsSubsequence(Tail(s), Tail(t))
    ELSE IsSubsequence(s, Tail(t))

Invocations(flat) == [k \in DOMAIN flat |-> Invocation(flat[k])]

\* the effects on the response handle of one registry handler invocation
RECURSIVE EffectsOfInvocation(_, _)
EffectsOfInvocation(name, payload) ==
    IF payload = <<>> \/ name \notin OwnCommands THEN <<>>
    ELSE << (IF name = "setHeader"
             THEN <<"setHeader", LowerCase(Head(payload)[1])>>
             ELSE <<"cookie", Head(payload)[1]>>) >>
         \o EffectsOfInvocation(name, Tail(payload))

RECURSIVE EffectsOf(_)
EffectsOf(invoked) ==
    IF invoked = <<>> THEN <<>>
    ELSE EffectsOfInvocation(Head(invoked)[1], Head(invoked)[2])
         \o EffectsOf(Tail(invoked))

\* C15: the commands of a response are applied in the order given, nested
\* lists flattened depth-first in place, and every command effect precedes
\* the exit-code header, which precedes the status, which precedes the body.
C15_CommandsThenExitCodeThenStatusThenBody ==
    SentCall =>
        /\ IsSubsequence(call.response.invoked, Invocations(FlatCommands(call.arg)))
        /\ call.response.log =
             EffectsOf(call.response.invoked)
               \o << <<"setHeader", "x-exit-code">>, <<"status", "">>, <<"send", "">> >>

\* a nested list whose two commands both ran, the header before the cookie
C15_Witness ==
    /\ SentCall
    /\ CommandsPresent(call.arg)
    /\ IsList(call.arg.commands)
    /\ Len(call.arg.commands.list) = 2
    /\ IsList(call.arg.commands.list[1])
    /\ Len(call.response.invoked) = 2
    /\ call.response.invoked[1][1] = "setHeader"
    /\ call.response.invoked[2][1] = "setCookie"
    /\ call.response.log =
         << <<"setHeader", "x-exit-code">>, <<"cookie", "session">>,
            <<"setHeader", "x-exit-code">>, <<"status", "">>, <<"send", "">> >>


\* the steps taken for a request after its business handler was invoked
AfterHandler(q) ==
    SubSeq(q.trace, StepIndex(q, "apiHandler") + 1, Len(q.trace))

StepNames(trace) == [k \in DOMAIN trace |-> trace[k].step]

\* C16: a request whose business handler invoked exactly one continuation is
\* in exactly one terminal state: after the success continuation the Response
\* Materializer has run once, the response is written, and one
\* REQUEST_RESPONSE notification follows the write; after the failure
\* continuation the Error Translator has run once, the error is written or
\* forwarded, and one REQUEST_ERROR notification follows.
C16_OneContinuationOneTerminalState ==
    \A i \in DOMAIN requests :
        LET q == requests[i]
        IN  (q.outcome = "dispatched" /\ q.continued = 1) =>
              \/ /\ StepNames(AfterHandler(q)) = <<"sendResponse", "REQUEST_RESPONSE">>
                 /\ StepCount(q, "sendResponse") = 1
                 /\ StepCount(q, "REQUEST_RESPONSE") = 1
                 /\ StepCount(q, "errorHandler") = 0
                 /\ StepCount(q, "REQUEST_ERROR") = 0
                 /\ q.response.sent = 1
                 /\ q.nextCalls = <<>>
              \/ /\ StepNames(AfterHandler(q)) = <<"errorHandler", "REQUEST_ERROR">>
                 /\ StepCount(q, "errorHandler") = 1
                 /\ StepCount(q, "REQUEST_ERROR") = 1
                 /\ StepCount(q, "sendResponse") = 0
                 /\ StepCount(q, "REQUEST_RESPONSE") = 0
                 /\ q.response.sent + Len(q.nextCalls) = 1

\* one request answered through the success continuation and one through the
\* failure continuation, each continued once
C16_Witness ==
    /\ Len(requests) = 2
    /\ requests[1].continued = 1 /\ requests[2].continued = 1
    /\ StepNames(AfterHandler(requests[1])) = <<"sendResponse", "REQUEST_RESPONSE">>
    /\ StepNames(AfterHandler(requests[2])) = <<"errorHandler", "REQUEST_ERROR">>
    /\ requests[1].response.sent = 1
    /\ requests[2].response.sent = 1

\* C17: a request for which the missing-handler error was reported still has
\* the Request Normalizer run and the method stamped after the report, and
\* the call of the absent business handler is still attempted; it fails with
\* a TypeError.
C17_FallsThroughAfterReport ==
    \A i \in DOMAIN requests :
        LET q == requests[i]
        IN  q.handler = "undefined" =>
              /\ StepNames(q.trace) =
                    <<"errorHandler", "REQUEST_ERROR", "transformRequest", "stamp", "TypeError">>
              /\ q.trace[1].arg = "RequestFlowNotDefined"
              /\ q.apiRequest = [CallTransform(transformFn, q.raw) EXCEPT !.method = q.method]
              /\ q.outcome = "rejected"

\* a request that met no handler, with the default Request Normalizer
C17_Witness ==
    \E i \in DOMAIN requests :
        /\ requests[i].handler = "undefined"
        /\ transformFn = "TransformRequest"
        /\ StepCount(requests[i], "TypeError") = 1
        /\ requests[i].apiRequest # NoApiRequest
        /\ requests[i].apiRequest.adapter = ADAPTER_NAME


(***************************************************************************)
(* Listener lifecycle, checked under Spec.                                 *)
(***************************************************************************)
\* a start() that binds one more open listener on the configured port and
\* makes it the adapter's server
StartBindsNewListener ==
    /\ Start
    /\ listeners' = Append(listeners, [port |-> port, open |-> TRUE, closes |-> 0])
    /\ server' = Len(listeners')
    /\ started'

OpenListeners == {i \in DOMAIN listeners : listeners[i].open}

\* C18: start() is not guarded by the started flag: in every state, started
\* or not, start() can be called and every call binds one more listener on
\* the configured port, leaving the listeners bound before untouched.
C18_StartAlwaysBinds ==
    /\ [](Len(listeners) < MaxListeners => ENABLED StartBindsNewListener)
    /\ [][Start => StartBindsNewListener]_vars

\* started twice with no stop in between: two open listeners on one port
C18_Witness ==
    /\ started
    /\ Len(listeners) = 2
    /\ OpenListeners = {1, 2}
    /\ listeners[1].port = listeners[2].port
    /\ listeners[1].closes = 0 /\ listeners[2].closes = 0
    /\ server = 2

\* C19: whenever the started flag is false, no listener the adapter has
\* bound is still open.
C19_StoppedMeansNoOpenListener ==
    ~started => OpenListeners = {}


(***************************************************************************)
(* Swapping the functions of a running adapter.  The adapter has been      *)
(* started with c1 and c2 and no business handler; the four setters are    *)
(* called at any time, before a request arrives and while it is in flight. *)
(***************************************************************************)
SwapHandlers == {"handle", "replacement"}

\* the first request received by the adapter
ArriveFirst(raw, error) ==
    /\ requests = <<>>
    /\ Arrive(raw, error)

InitSwap ==
    LET st == loadRoutesFromContainers(
                  [loaded |-> <<>>, bindings |-> <<>>, emitted |-> <<>>],
                  <<"c1", "c2">>)
    IN  /\ containers = <<"c1", "c2">>
        /\ port = DEFAULT_PORT
        /\ booted = TRUE
        /\ started = TRUE
        /\ server = 1
        /\ loaded = st.loaded
        /\ bindings = st.bindings
        /\ emitted = st.emitted
        /\ listeners = Listen(<<>>, DEFAULT_PORT)
        /\ apiHandler = "undefined"
        /\ transformFn = "TransformRequest"
        /\ sendFn = "SendResponse"
        /\ errorFn = "ErrorHandler"
        /\ requests = <<>>
        /\ call = NoCall

NextSwap ==
    \/ \E h \in SwapHandlers : SetRequestHandler(h)
    \/ \E f \in TransformFunctions : SetTransformRequestFunction(f)
    \/ \E f \in SendFunctions : SetSendResponseFunction(f)
    \/ \E f \in ErrorFunctions : SetErrorHanlder(f)
    \/ \E raw \in RawRequests : \E error \in RequestFlowNotDefined : ArriveFirst(raw, error)
    \/ \E i \in DOMAIN requests : \E routeResp \in HandlerResponses : Success(i, routeResp)
    \/ \E i \in DOMAIN requests : \E error \in HandlerErrors : Failure(i, error)

SpecSwap == InitSwap /\ [][NextSwap]_vars

\* an arriving request is normalized by the normalizer, and handed to the
\* business handler, installed when it arrives
ArrivalUsesInstalled ==
    \A raw \in RawRequests : \A error \in RequestFlowNotDefined :
        ArriveFirst(raw, error) =>
            LET q == requests'[1]
            IN  /\ q.apiRequest = [CallTransform(transformFn, raw) EXCEPT !.method = q.method]
                /\ q.handler = apiHandler
                /\ apiHandler # "undefined" => q.handed = q.apiRequest
                /\ apiHandler = "undefined" =>
                     LET out == CallError(errorFn, NewResponse, <<>>, error)
                     IN  q.response = out.response /\ q.nextCalls = out.nextCalls

\* a success continuation writes with the materializer installed when it fires
SuccessUsesInstalled ==
    \A i \in DOMAIN requests : \A routeResp \in HandlerResponses :
        Success(i, routeResp) =>
            /\ requests'[i].response = CallSend(sendFn, routeResp, requests[i].response)
            /\ requests'[i].nextCalls = requests[i].nextCalls

\* a failure continuation reports with the error translator installed when it
\* fires
FailureUsesInstalled ==
    \A i \in DOMAIN requests : \A error \in HandlerErrors :
        Failure(i, error) =>
            LET out == CallError(errorFn, requests[i].response, requests[i].nextCalls, error)
            IN  /\ requests'[i].response = out.response
                /\ requests'[i].nextCalls = out.nextCalls

\* C20: the business handler, the Request Normalizer, the Response
\* Materializer and the Error Translator are looked up when they are used:
\* every step of a request uses the function the adapter holds at that step,
\* installed by a setter after the routes were bound or while the request
\* was in flight.
C20_ResolvedAtUse ==
    [][ArrivalUsesInstalled /\ SuccessUsesInstalled /\ FailureUsesInstalled]_vars

\* a request dispatched to a handler installed after start, normalized by a
\* replaced normalizer, answered once by the default materializer and, after
\* the materializer was replaced while it was in flight, once by the
\* replacement
C20_Witness ==
    /\ Len(requests) = 1
    /\ requests[1].handler = "replacement"
    /\ requests[1].handed.identification = "anonymous"
    /\ requests[1].continued = 2
    /\ sendFn = "SendBodyOnly"
    /\ requests[1].response.log =
         << <<"setHeader", "x-test">>, <<"setHeader", "x-exit-code">>,
            <<"status", "">>, <<"send", "">>, <<"send", "">> >>

====
